---- MODULE Spec2Model ----
(***************************************************************************)
(* Hotel inventory (Eros-OTH-List): the listing endpoint of the API server *)
(* (query building, pagination, result cache, role-gated writes) and the   *)
(* contract-status resolver of the hotel views.                            *)
(*                                                                         *)
(* Text is modelled as a sequence of one-character strings, so that        *)
(* parseInt and ILIKE are computed and not assumed.  A JavaScript number   *)
(* is a record [k, v]: k = "num" (the integer v), "nan" or "inf".          *)
(***************************************************************************)
EXTENDS Integers, Sequences, FiniteSets, TLC

VARIABLES
    rows,       \* table hotels, in insertion (created_at) order
    cache,      \* the Map `cache`: key -> [data, timestamp]
    now,        \* Date.now(), in milliseconds
    gets,       \* GET /api/hotels requests in flight, by slot
    writes,     \* POST/PUT/DELETE /api/hotels requests in flight, by slot
    lastResp,   \* the response sent most recently
    nextId,     \* the next identifier randomUUID() hands out (ids never repeat)
    rHotel,     \* resolver: the hotel prop being rendered
    rYear,      \* resolver: the `year` prop of the view (optional)
    rOut,       \* resolver: what getContractStatus of the table view returned
    rGridOut,   \* resolver: what getContractStatus of the grid view returned
    rCardOut,   \* resolver: what getContractStatus of the card view returned
    filters,    \* dashboard: the committed filter set (state `filters`)
    draft,      \* filter component: the staged filter set (state `draft`)
    currentPage, \* dashboard: state `currentPage`
    hotels,     \* dashboard: state `hotels`, as loaded
    listing,    \* dashboard: paginatedHotels of the last render
    lastEvent,  \* the user event handled last (history)
    toasts,     \* dashboard: the titles toast() was called with by the handler run last
    calls,      \* dashboard: fetch() calls awaiting their response
    editingHotel, \* dashboard: state `editingHotel` (optional)
    formData,   \* form modal: state `formData`
    pagination  \* server-side listing: data.pagination as set by fetchHotels

serverVars == <<rows, cache, now, gets, writes, lastResp, nextId>>
resolverVars == <<rHotel, rYear, rOut>>
viewVars == <<rGridOut, rCardOut>>
clientVars == <<filters, draft, currentPage, hotels, listing, lastEvent>>
dashVars == <<toasts, calls, editingHotel, formData, pagination>>
uiVars == <<resolverVars, viewVars, clientVars, dashVars>>
vars == <<serverVars, uiVars>>

----------------------------------------------------------------------------
(* JavaScript values *)

Num(n) == [k |-> "num", v |-> n]
NaN == [k |-> "nan", v |-> 0]
Infinity == [k |-> "inf", v |-> 0]
IsNum(x) == x.k = "num"

\* an absent property (undefined); never equal to a text, whose elements
\* are single characters
Undefined == <<"undefined">>

\* an optional value is a sequence of length 0 (absent) or 1
None == <<>>
Some(x) == <<x>>

Abs(x) == IF x < 0 THEN -x ELSE x

DigitChars == <<"0", "1", "2", "3", "4", "5", "6", "7", "8", "9">>
IsDigit(c) == \E i \in 1..10 : DigitChars[i] = c
DigitVal(c) == (CHOOSE i \in 1..10 : DigitChars[i] = c) - 1

RECURSIVE TrimStart(_)
TrimStart(s) ==
    IF Len(s) > 0 /\ Head(s) = " " THEN TrimStart(Tail(s)) ELSE s

RECURSIVE LeadingDigits(_)
LeadingDigits(s) ==
    IF Len(s) > 0 /\ IsDigit(Head(s))
    THEN <<Head(s)>> \o LeadingDigits(Tail(s))
    ELSE <<>>

RECURSIVE DigitsToNat(_, _)
DigitsToNat(ds, acc) ==
    IF Len(ds) = 0 THEN acc
    ELSE DigitsToNat(Tail(ds), acc * 10 + DigitVal(Head(ds)))

\* parseInt(string): leading white space, an optional sign, then the longest
\* prefix of decimal digits; NaN when there is none
parseInt(s) ==
    LET t == TrimStart(s)
        neg == Len(t) > 0 /\ Head(t) = "-"
        u == IF Len(t) > 0 /\ Head(t) \in {"-", "+"} THEN Tail(t) ELSE t
        ds == LeadingDigits(u)
    IN  IF Len(ds) = 0 THEN NaN
        ELSE Num(IF neg THEN 0 - DigitsToNat(ds, 0) ELSE DigitsToNat(ds, 0))

\* String(n) of a non-negative integer, as characters
RECURSIVE NatToChars(_)
NatToChars(n) ==
    IF n < 10 THEN <<DigitChars[n + 1]>>
    ELSE NatToChars(n \div 10) \o <<DigitChars[(n % 10) + 1]>>

\* new Date().getFullYear()
CurrentYear == 2024

----------------------------------------------------------------------------
(* Contract-status resolver (HotelTable.getContractStatus) *)

\* truthiness of an optional string: undefined and '' are falsy
Truthy(opt) == Len(opt) = 1 /\ opt[1] # ""

\* the mutation: find returns the last match instead of the first
FindYearLast(list, targetYear) ==
    IF \E i \in 1..Len(list) : list[i].year = targetYear
    THEN CHOOSE i \in 1..Len(list) :
            /\ list[i].year = targetYear
            /\ \A j \in (i + 1)..Len(list) : list[j].year # targetYear
    ELSE 0

\* Array.prototype.find(rate => rate.year === targetYear): the index of the
\* first match, 0 when there is none
FindYear(list, targetYear) ==
    IF \E i \in 1..Len(list) : list[i].year = targetYear
    THEN CHOOSE i \in 1..Len(list) :
            /\ list[i].year = targetYear
            /\ \A j \in 1..(i - 1) : list[j].year # targetYear
    ELSE 0

\* the mutation: on equal distance the later record wins
CloserOfOrEqual(prev, curr, targetYear) ==
    IF Abs(curr.year - targetYear) <= Abs(prev.year - targetYear)
    THEN curr ELSE prev

\* the callback of reduce: curr replaces prev only when strictly closer
CloserOf(prev, curr, targetYear) ==
    IF Abs(curr.year - targetYear) < Abs(prev.year - targetYear)
    THEN curr ELSE prev

\* Array.prototype.reduce without an initial value, on a non-empty list:
\* the accumulator starts as the first element
RECURSIVE ReduceFrom(_, _, _, _)
ReduceFrom(list, i, prev, targetYear) ==
    IF i > Len(list) THEN prev
    ELSE ReduceFrom(list, i + 1, CloserOf(prev, list[i], targetYear), targetYear)

NearestYearData(list, targetYear) == ReduceFrom(list, 2, list[1], targetYear)

\* the mutation: an empty list is reported as unavailable
NoDataAsUnavailable(targetYear) ==
    [status |-> <<"Unavailable">>,
     variant |-> "destructive",
     tooltip |-> <<"Unavailable in ", ToString(targetYear)>>]

NoDataResult(targetYear) ==
    [status |-> <<"No Data (", ToString(targetYear), ")">>,
     variant |-> "secondary",
     tooltip |-> <<"No contract data for ", ToString(targetYear)>>]

\* the mutation: the nearest-year note is left out for an unavailable record
FoundResultNoteWhenAvailable(yearData, fromNearest, targetYear) ==
    LET yearLabel == yearData.year
        range == IF Truthy(yearData.contractStart) /\ Truthy(yearData.contractEnd)
                 THEN <<" (", yearData.contractStart[1], " -> ",
                        yearData.contractEnd[1], ")">>
                 ELSE <<>>
        nearestNote == IF fromNearest /\ yearLabel # targetYear
                       THEN <<" (showing ", ToString(yearLabel),
                              "; no data for ", ToString(targetYear), ")">>
                       ELSE <<>>
    IN  IF yearData.available
        THEN [status |-> <<"Available (", ToString(yearLabel), ")">>,
              variant |-> "default",
              tooltip |-> <<"Available in ", ToString(yearLabel)>>
                            \o range \o nearestNote]
        ELSE [status |-> <<"Unavailable">>,
              variant |-> "destructive",
              tooltip |-> <<"Unavailable in ", ToString(yearLabel)>>]

\* the result for a record that was found; " -> " stands for the arrow
\* character of the template string
FoundResult(yearData, fromNearest, targetYear) ==
    LET yearLabel == yearData.year
        range == IF Truthy(yearData.contractStart) /\ Truthy(yearData.contractEnd)
                 THEN <<" (", yearData.contractStart[1], " -> ",
                        yearData.contractEnd[1], ")">>
                 ELSE <<>>
        nearestNote == IF fromNearest /\ yearLabel # targetYear
                       THEN <<" (showing ", ToString(yearLabel),
                              "; no data for ", ToString(targetYear), ")">>
                       ELSE <<>>
    IN  IF yearData.available
        THEN [status |-> <<"Available (", ToString(yearLabel), ")">>,
              variant |-> "default",
              tooltip |-> <<"Available in ", ToString(yearLabel)>>
                            \o range \o nearestNote]
        ELSE [status |-> <<"Unavailable">>,
              variant |-> "destructive",
              tooltip |-> <<"Unavailable in ", ToString(yearLabel)>>
                            \o nearestNote]

\* getContractStatus of the table view; `year` is the optional prop
getContractStatus(hotel, year) ==
    LET targetYear == IF Len(year) = 1 THEN year[1] ELSE CurrentYear
        list == hotel.rateAvailability
        exact == FindYear(list, targetYear)
    IN  IF exact # 0 THEN FoundResult(list[exact], FALSE, targetYear)
        ELSE IF Len(list) > 0
             THEN FoundResult(NearestYearData(list, targetYear), TRUE, targetYear)
             ELSE NoDataResult(targetYear)

\* The grid view and the card view carry their own copies of the resolver.
\* The copies differ from the table's in one template string: where the
\* table's range has the arrow U+2192, theirs has the three characters
\* U+00E2 U+2020 U+2019.
GridCardFoundResult(yearData, fromNearest, targetYear) ==
    LET yearLabel == yearData.year
        range == IF Truthy(yearData.contractStart) /\ Truthy(yearData.contractEnd)
                 THEN <<" (", yearData.contractStart[1],
                        " U+00E2 U+2020 U+2019 ",
                        yearData.contractEnd[1], ")">>
                 ELSE <<>>
        nearestNote == IF fromNearest /\ yearLabel # targetYear
                       THEN <<" (showing ", ToString(yearLabel),
                              "; no data for ", ToString(targetYear), ")">>
                       ELSE <<>>
    IN  IF yearData.available
        THEN [status |-> <<"Available (", ToString(yearLabel), ")">>,
              variant |-> "default",
              tooltip |-> <<"Available in ", ToString(yearLabel)>>
                            \o range \o nearestNote]
        ELSE [status |-> <<"Unavailable">>,
              variant |-> "destructive",
              tooltip |-> <<"Unavailable in ", ToString(yearLabel)>>
                            \o nearestNote]

\* getContractStatus of the grid view
GridGetContractStatus(hotel, year) ==
    LET targetYear == IF Len(year) = 1 THEN year[1] ELSE CurrentYear
        list == hotel.rateAvailability
        exact == FindYear(list, targetYear)
    IN  IF exact # 0 THEN GridCardFoundResult(list[exact], FALSE, targetYear)
        ELSE IF Len(list) > 0
             THEN GridCardFoundResult(NearestYearData(list, targetYear), TRUE,
                                      targetYear)
             ELSE NoDataResult(targetYear)

\* getContractStatus of the card view: the same text as the grid view's
CardGetContractStatus(hotel, year) ==
    LET targetYear == IF Len(year) = 1 THEN year[1] ELSE CurrentYear
        list == hotel.rateAvailability
        exact == FindYear(list, targetYear)
    IN  IF exact # 0 THEN GridCardFoundResult(list[exact], FALSE, targetYear)
        ELSE IF Len(list) > 0
             THEN GridCardFoundResult(NearestYearData(list, targetYear), TRUE,
                                      targetYear)
             ELSE NoDataResult(targetYear)

----------------------------------------------------------------------------
(* Server: values of the hotels API *)

\* a JSON value of the request body's rateAvailability / the jsonb column:
\* t = "array" (v its elements), "undefined", "null" (any falsy value) or
\* "string" (a non-empty string, standing for any truthy non-array)
JArray(list) == [t |-> "array", v |-> list]
JUndefined == [t |-> "undefined", v |-> <<>>]
JString == [t |-> "string", v |-> <<>>]
IsArray(j) == j.t = "array"
JsTruthy(j) == j.t \in {"array", "string"}

LowerChars == <<"a", "b", "c", "d", "e", "f", "g", "h", "i", "j", "k", "l", "m",
                "n", "o", "p", "q", "r", "s", "t", "u", "v", "w", "x", "y", "z">>
UpperChars == <<"A", "B", "C", "D", "E", "F", "G", "H", "I", "J", "K", "L", "M",
                "N", "O", "P", "Q", "R", "S", "T", "U", "V", "W", "X", "Y", "Z">>
Lower(c) ==
    IF \E i \in 1..26 : UpperChars[i] = c
    THEN LowerChars[CHOOSE i \in 1..26 : UpperChars[i] = c]
    ELSE c

\* text ILIKE '%' || pattern || '%', for a pattern without % and _
ILikeContains(text, pattern) ==
    \E i \in 0..(Len(text) - Len(pattern)) :
        \A j \in 1..Len(pattern) : Lower(text[i + j]) = Lower(pattern[j])

Txt_all == <<"a", "l", "l">>
Txt_available == <<"a", "v", "a", "i", "l", "a", "b", "l", "e">>
Txt_unavailable == <<"u", "n">> \o Txt_available

\* JavaScript arithmetic on the numbers the handler computes
JsSub(a, b) == IF IsNum(a) /\ IsNum(b) THEN Num(a.v - b.v) ELSE NaN
JsMul(a, b) == IF IsNum(a) /\ IsNum(b) THEN Num(a.v * b.v) ELSE NaN
MathMin(a, b) ==
    IF IsNum(a) /\ IsNum(b) THEN (IF a.v < b.v THEN a ELSE b) ELSE NaN
\* Math.ceil(a / b) for integers a >= 0, b >= 0
MathCeilDiv(a, b) ==
    IF b = 0 THEN (IF a = 0 THEN NaN ELSE Infinity)
    ELSE Num((a + b - 1) \div b)

DefaultPage == 1
DefaultLimit == 50
MaxLimit == 100
CACHE_TTL == 5 * 60 * 1000

\* destructuring with a default: `x = d` applies when the property is undefined
OrDefault(x, d) == IF x = Undefined THEN d ELSE x

pageOf(q) == OrDefault(q.page, NatToChars(DefaultPage))
limitOf(q) == OrDefault(q.limit, NatToChars(DefaultLimit))
searchOf(q) == OrDefault(q.search, <<>>)
countryOf(q) == OrDefault(q.country, <<>>)
cityOf(q) == OrDefault(q.city, <<>>)
yearOf(q) == OrDefault(q.year, NatToChars(CurrentYear))
contractStatusOf(q) == OrDefault(q.contractStatus, Txt_all)

\* const offset = (parseInt(page) - 1) * parseInt(limit)
offset(q) == JsMul(JsSub(parseInt(pageOf(q)), Num(1)), parseInt(limitOf(q)))

\* the mutation: the cap is not applied
limitNumUncapped(q) == parseInt(limitOf(q))

\* const limitNum = Math.min(parseInt(limit), 100)
limitNum(q) == MathMin(parseInt(limitOf(q)), Num(MaxLimit))

\* the mutation: availability of the year's record is not compared
JsonbContainsAnyFlag(j, y, flag) ==
    /\ IsArray(j)
    /\ \E i \in 1..Len(j.v) : j.v[i].year = y

\* rate_availability @> '[{"year": y, "available": flag}]'
JsonbContains(j, y, flag) ==
    /\ IsArray(j)
    /\ \E i \in 1..Len(j.v) : j.v[i].year = y /\ j.v[i].available = flag

\* the WHERE clause (whereConditions joined by AND) on one row
WhereMatch(row, q) ==
    /\ Len(searchOf(q)) > 0 =>
          \/ ILikeContains(row.name, searchOf(q))
          \/ ILikeContains(row.city, searchOf(q))
          \/ ILikeContains(row.country, searchOf(q))
    /\ Len(countryOf(q)) > 0 => row.country = countryOf(q)
    /\ Len(cityOf(q)) > 0 => row.city = cityOf(q)
    /\ contractStatusOf(q) # Txt_all =>
          IF contractStatusOf(q) = Txt_available
          THEN JsonbContains(row.rate_availability, parseInt(yearOf(q)).v, TRUE)
          ELSE IF contractStatusOf(q) = Txt_unavailable
               THEN JsonbContains(row.rate_availability, parseInt(yearOf(q)).v, FALSE)
               ELSE TRUE

\* the store rejects the WHERE clause: the jsonb literal holds `NaN`
WhereRejected(q) ==
    /\ contractStatusOf(q) \in {Txt_available, Txt_unavailable}
    /\ ~IsNum(parseInt(yearOf(q)))

\* the store rejects LIMIT/OFFSET: a parameter is NaN or negative
PageRejected(q) ==
    \/ ~IsNum(limitNum(q)) \/ ~IsNum(offset(q))
    \/ limitNum(q).v < 0 \/ offset(q).v < 0

Reverse(s) == [i \in 1..Len(s) |-> s[Len(s) + 1 - i]]
MinOf(a, b) == IF a < b THEN a ELSE b

Matching(table, q) ==
    LET Keep(row) == WhereMatch(row, q) IN SelectSeq(table, Keep)

\* SELECT COUNT(*) FROM hotels WHERE ...
countQuery(table, q) == Len(Matching(table, q))

\* SELECT * FROM hotels WHERE ... ORDER BY created_at DESC LIMIT l OFFSET o
dataQuery(table, q) ==
    LET ordered == Reverse(Matching(table, q))
        o == offset(q).v
        l == limitNum(q).v
    IN  SubSeq(ordered, o + 1, MinOf(o + l, Len(ordered)))

toApi(row) ==
    [id |-> row.id, name |-> row.name, country |-> row.country,
     city |-> row.city, stars |-> row.stars,
     rateAvailability |-> row.rate_availability]

\* the response body of a listing
ListingResult(q, totalCount, found) ==
    [hotels |-> [i \in 1..Len(found) |-> toApi(found[i])],
     pagination |-> [page |-> parseInt(pageOf(q)),
                     limit |-> limitNum(q),
                     total |-> Num(totalCount),
                     totalPages |-> MathCeilDiv(totalCount, limitNum(q).v)]]

ErrorBody == [hotels |-> <<>>,
              pagination |-> [page |-> NaN, limit |-> NaN, total |-> NaN,
                              totalPages |-> NaN]]

\* `hotels:${JSON.stringify(params)}`: the prefix and the serialised query;
\* a query is a record, so its parameters are serialised in one fixed order
getCacheKey(q) == <<"hotels:", q>>

\* the mutation: an entry of age exactly CACHE_TTL still counts as valid
isCacheValidInclusive(c, key, t) ==
    key \in DOMAIN c /\ (t - c[key].timestamp) <= CACHE_TTL

\* cacheEntry && (Date.now() - cacheEntry.timestamp) < CACHE_TTL
isCacheValid(c, key, t) ==
    key \in DOMAIN c /\ (t - c[key].timestamp) < CACHE_TTL

EmptyCache == [k \in {} |-> 0]

\* cache.set(key, entry)
CacheSet(c, key, entry) ==
    [k \in (DOMAIN c) \cup {key} |-> IF k = key THEN entry ELSE c[k]]

\* the mutation: a write leaves the cache as it is
CacheKeep(c) == c

\* the mutation: a write drops one entry only
CacheDropOne(c) ==
    IF DOMAIN c = {} THEN c
    ELSE LET gone == CHOOSE k \in DOMAIN c : TRUE
         IN  [k \in (DOMAIN c) \ {gone} |-> c[k]]

\* cache.clear()
CacheClear(c) == EmptyCache

\* a session token: absent, or present with a signature that verifies or
\* not, and the role its payload carries
NoToken == [present |-> FALSE, valid |-> FALSE, role |-> "none"]
Token(valid, role) == [present |-> TRUE, valid |-> valid, role |-> role]

\* authRequired: 0 when next() is called, else the status it answers
authRequired(token) ==
    IF ~token.present THEN 401
    ELSE IF ~token.valid THEN 401
    ELSE 0

\* the mutation: any role passes
requireRoleAny(token, role) == 0

\* requireRole(role), after authRequired has set req.user
requireRole(token, role) ==
    IF token.role # role THEN 403 ELSE 0

\* the middleware chain authRequired, requireRole('admin')
Gate(token) ==
    IF authRequired(token) # 0 THEN authRequired(token)
    ELSE requireRole(token, "admin")

----------------------------------------------------------------------------
(* Client: the dashboard (committed filters, page, listing) and the filter  *)
(* component (draft).  An event handler, the render it causes and the       *)
(* effects of that render are one step: React runs the effects of a render  *)
(* before it handles the next event.                                        *)

ItemsPerPage == 12
YearOptionCount == 5

\* the initial state `filters` of the dashboard, and `cleared`
DefaultFilters ==
    [search |-> <<>>, country |-> <<>>, city |-> <<>>, year |-> CurrentYear,
     contractStatus |-> Txt_all]

\* the initial state `formData` of the form modal
DefaultStars == 3
EmptyRate ==
    [year |-> CurrentYear, available |-> FALSE,
     contractStart |-> <<>>, contractEnd |-> <<>>]
EmptyForm ==
    [name |-> <<>>, country |-> <<>>, city |-> <<>>, stars |-> DefaultStars,
     rateAvailability |-> <<EmptyRate>>]

\* no listing fetched yet (seq: the issue number of the request whose
\* response is shown, history)
NoPagination == [total |-> 0, totalPages |-> 0, seq |-> 0]

\* no handler has run, no call is in flight, the modal is closed
DashIdle ==
    /\ toasts = <<>>
    /\ calls = {}
    /\ editingHotel = None
    /\ formData = EmptyForm
    /\ pagination = NoPagination

\* Array.from({ length: 5 }, (_, i) => currentYear - 1 + i)
yearOptions == {CurrentYear - 1 + i : i \in 0..(YearOptionCount - 1)}

\* the effect that syncs the draft; no field of `filters` is null here, so
\* each `??` yields the field itself
SyncDraft(f) ==
    [search |-> f.search, country |-> f.country, city |-> f.city,
     year |-> f.year, contractStatus |-> f.contractStatus]

\* the mutation: an edit drops the other staged fields
handleDraftChangeAlone(d, key, value) == [DefaultFilters EXCEPT ![key] = value]

\* setDraft(prev => ({ ...prev, [key]: value }))
handleDraftChange(d, key, value) == [d EXCEPT ![key] = value]

\* the value an input hands to handleDraftChange: the selects of country and
\* city map 'all' to '', the select of year parses its option
InputValue(key, raw) ==
    IF key \in {"country", "city"}
    THEN (IF raw = Txt_all THEN <<>> ELSE raw)
    ELSE IF key = "year" THEN parseInt(raw).v
    ELSE raw

\* JSON.stringify of a filter set: keys in the order of the object literal
StringifyFilters(f) ==
    <<"search", f.search, "country", f.country, "city", f.city,
      "year", NatToChars(f.year), "contractStatus", f.contractStatus>>

hasChanges == StringifyFilters(draft) # StringifyFilters(filters)

hasActiveFilters ==
    \/ Len(filters.search) > 0 \/ Len(filters.country) > 0
    \/ Len(filters.city) > 0 \/ filters.contractStatus # Txt_all

\* text.toLowerCase().includes(pattern.toLowerCase())
IncludesLower(text, pattern) ==
    \E i \in 0..(Len(text) - Len(pattern)) :
        \A j \in 1..Len(pattern) : Lower(text[i + j]) = Lower(pattern[j])

\* yearData of the dashboard's filter: exact year, else the nearest; 0 = none
ClientYearData(hotel, targetYear) ==
    LET list == hotel.rateAvailability
        exact == FindYear(list, targetYear)
    IN  IF exact # 0 THEN <<list[exact]>>
        ELSE IF Len(list) > 0 THEN <<NearestYearData(list, targetYear)>>
        ELSE <<>>

matchesHotel(hotel, f) ==
    LET matchesSearch == \/ IncludesLower(hotel.name, f.search)
                         \/ IncludesLower(hotel.city, f.search)
                         \/ IncludesLower(hotel.country, f.search)
        matchesCountry == Len(f.country) = 0 \/ hotel.country = f.country
        matchesCity == Len(f.city) = 0 \/ hotel.city = f.city
        targetYear == IF f.year # 0 THEN f.year ELSE CurrentYear
        yearData == ClientYearData(hotel, targetYear)
        matchesContract ==
            IF f.contractStatus = Txt_all THEN TRUE
            ELSE IF f.contractStatus = Txt_available
                 THEN Len(yearData) = 1 /\ yearData[1].available
                 ELSE Len(yearData) = 1 /\ ~yearData[1].available
    IN  matchesSearch /\ matchesCountry /\ matchesCity /\ matchesContract

\* the mutation: the listing is filtered by the draft
filteredHotelsByDraft(hs, f) ==
    LET Keep(h) == matchesHotel(h, draft) IN SelectSeq(hs, Keep)

\* useMemo(() => hotels.filter(...), [hotels, filters])
filteredHotels(hs, f) ==
    LET Keep(h) == matchesHotel(h, f) IN SelectSeq(hs, Keep)

\* filteredHotels.slice(startIndex, startIndex + itemsPerPage)
paginatedHotels(fh, page) ==
    LET startIndex == (page - 1) * ItemsPerPage
        last == IF startIndex + ItemsPerPage < Len(fh)
                THEN startIndex + ItemsPerPage ELSE Len(fh)
    IN  SubSeq(fh, startIndex + 1, last)

\* what the dashboard shows after a render
Rendered == paginatedHotels(filteredHotels(hotels', filters'), currentPage')

\* an input of the filter component changes: handleDraftChange, and a render
Edit(key, raw) ==
    /\ draft' = handleDraftChange(draft, key, InputValue(key, raw))
    /\ UNCHANGED <<filters, currentPage, hotels>>
    /\ listing' = Rendered
    /\ lastEvent' = "edit"
    /\ UNCHANGED <<serverVars, resolverVars, viewVars, dashVars>>

\* the mutation: the page is kept when the filters change
FiltersChangedKeepPage(f) ==
    /\ filters' = f
    /\ currentPage' = currentPage
    /\ draft' = SyncDraft(f)
    /\ UNCHANGED hotels
    /\ listing' = Rendered

\* the mutation: the draft is kept when the filters change
FiltersChangedKeepDraft(f) ==
    /\ filters' = f
    /\ currentPage' = 1
    /\ draft' = draft
    /\ UNCHANGED hotels
    /\ listing' = Rendered

\* setFilters(f) with a new object, the render and its effects: the
\* dashboard's effect sets page 1, the filter component's effect syncs the
\* draft.  (The draft is never the object held in `filters`: after every
\* change of `filters` the sync effect replaces the draft by a new object.)
FiltersChanged(f) ==
    /\ filters' = f
    /\ currentPage' = 1
    /\ draft' = SyncDraft(f)
    /\ UNCHANGED hotels
    /\ listing' = Rendered

\* onFiltersChange(draft)
handleApplyFilters == FiltersChanged(draft)

\* the mutation: Clear commits the draft
handleClearFiltersAsApply == FiltersChanged(draft)

\* setDraft(cleared); onFiltersChange(cleared)
handleClearFilters == FiltersChanged(DefaultFilters)

\* the Apply button, disabled={!hasChanges}
Apply ==
    /\ hasChanges
    /\ handleApplyFilters
    /\ lastEvent' = "apply"
    /\ UNCHANGED <<serverVars, resolverVars, viewVars, dashVars>>

\* Enter in the search input
EnterInSearch ==
    /\ handleApplyFilters
    /\ lastEvent' = "enter"
    /\ UNCHANGED <<serverVars, resolverVars, viewVars, dashVars>>

\* the Clear button, disabled={!hasActiveFilters}
Clear ==
    /\ hasActiveFilters
    /\ handleClearFilters
    /\ lastEvent' = "clear"
    /\ UNCHANGED <<serverVars, resolverVars, viewVars, dashVars>>

\* the parent hands the filter component another `filters` object
ExternalSet(f) ==
    /\ FiltersChanged(f)
    /\ lastEvent' = "external"
    /\ UNCHANGED <<serverVars, resolverVars, viewVars, dashVars>>

\* onPageChange={setCurrentPage}
GoToPage(p) ==
    /\ currentPage' = p
    /\ UNCHANGED <<filters, draft, hotels>>
    /\ listing' = Rendered
    /\ lastEvent' = "page"
    /\ UNCHANGED <<serverVars, resolverVars, viewVars, dashVars>>

----------------------------------------------------------------------------
(* Server: requests in flight and the handlers' steps.                      *)
(* A handler runs to its next `await` in one step; the store executes each *)
(* query at a moment of its own, between the call and the continuation.    *)
(* created_at and updated_at are not kept: the table is held in insertion  *)
(* order, which is the order created_at gives.                             *)

MaxGets == 1
MaxWrites == 1
MaxIds == 1
MaxTicks == 1

GSlots == 1..MaxGets
WSlots == 1..MaxWrites

NoQuery == [page |-> Undefined, limit |-> Undefined, search |-> Undefined,
            country |-> Undefined, city |-> Undefined, year |-> Undefined,
            contractStatus |-> Undefined]

NoBody == [name |-> Undefined, country |-> Undefined, city |-> Undefined,
           stars |-> None, rateAvailability |-> JUndefined]

IdleGet == [pc |-> "idle", q |-> NoQuery, total |-> 0, found |-> <<>>,
            before |-> {}, stale |-> FALSE, pre |-> FALSE]

IdleWrite == [pc |-> "idle", kind |-> "none", token |-> NoToken, id |-> 0,
              body |-> NoBody, rowCount |-> 0, returned |-> <<>>]

NoResp == [type |-> "none", status |-> 0, q |-> NoQuery, token |-> NoToken,
           body |-> ErrorBody, row |-> <<>>, hit |-> FALSE,
           stale |-> FALSE, raced |-> FALSE, pre |-> FALSE]

GetResp(q, status, body, hit, stale, raced, pre) ==
    [type |-> "GET", status |-> status, q |-> q, token |-> NoToken,
     body |-> body, row |-> <<>>, hit |-> hit,
     stale |-> stale, raced |-> raced, pre |-> pre]

WriteResp(kind, token, status, row) ==
    [type |-> kind, status |-> status, q |-> NoQuery, token |-> token,
     body |-> ErrorBody, row |-> row, hit |-> FALSE,
     stale |-> FALSE, raced |-> FALSE, pre |-> FALSE]

LowestIdle(slots, table) ==
    CHOOSE i \in slots : table[i].pc = "idle"
                         /\ \A j \in slots : table[j].pc = "idle" => i <= j

\* app.get('/api/hotels'): destructuring, cache lookup; on a hit the cached
\* data is the answer, on a miss the count query is sent
GetStart(g, q) ==
    /\ gets[g].pc = "idle"
    /\ g = LowestIdle(GSlots, gets)
    /\ LET key == getCacheKey(q) IN
       IF isCacheValid(cache, key, now)
       THEN /\ lastResp' = GetResp(q, 200, cache[key].data, TRUE,
                                   cache[key].stale, cache[key].raced,
                                   cache[key].pre)
            /\ UNCHANGED gets
       ELSE /\ gets' = [gets EXCEPT ![g] = [IdleGet EXCEPT !.pc = "count", !.q = q]]
            /\ UNCHANGED lastResp
    /\ UNCHANGED <<rows, cache, now, writes, nextId, uiVars>>

\* the store executes countQuery; its continuation sends dataQuery
GetCount(g) ==
    /\ gets[g].pc = "count"
    /\ IF WhereRejected(gets[g].q)
       THEN /\ lastResp' = GetResp(gets[g].q, 500, ErrorBody, FALSE, FALSE, FALSE, FALSE)
            /\ gets' = [gets EXCEPT ![g] = IdleGet]
       ELSE /\ gets' = [gets EXCEPT ![g].pc = "data",
                                    ![g].total = countQuery(rows, gets[g].q)]
            /\ UNCHANGED lastResp
    /\ UNCHANGED <<rows, cache, now, writes, nextId, uiVars>>

\* the store executes dataQuery
GetData(g) ==
    /\ gets[g].pc = "data"
    /\ IF PageRejected(gets[g].q)
       THEN /\ lastResp' = GetResp(gets[g].q, 500, ErrorBody, FALSE, FALSE, FALSE, FALSE)
            /\ gets' = [gets EXCEPT ![g] = IdleGet]
       ELSE /\ gets' = [gets EXCEPT ![g].pc = "fin",
                                    ![g].found = dataQuery(rows, gets[g].q)]
            /\ UNCHANGED lastResp
    /\ UNCHANGED <<rows, cache, now, writes, nextId, uiVars>>

\* the continuation after dataQuery: build the result, cache.set, res.json
GetFinish(g) ==
    /\ gets[g].pc = "fin"
    /\ LET q == gets[g].q
           result == ListingResult(q, gets[g].total, gets[g].found)
           raced == gets[g].stale \/ gets[g].before # {}
       IN  /\ cache' = CacheSet(cache, getCacheKey(q),
                                [data |-> result, timestamp |-> now,
                                 before |-> gets[g].before,
                                 stale |-> gets[g].stale,
                                 raced |-> raced, pre |-> gets[g].pre])
           /\ lastResp' = GetResp(q, 200, result, FALSE, gets[g].stale, raced,
                                  gets[g].pre)
    /\ gets' = [gets EXCEPT ![g] = IdleGet]
    /\ UNCHANGED <<rows, now, writes, nextId, uiVars>>

\* pool.query rejects (the store is unreachable): catch, 500
GetDbError(g) ==
    /\ gets[g].pc \in {"count", "data"}
    /\ lastResp' = GetResp(gets[g].q, 500, ErrorBody, FALSE, FALSE, FALSE, FALSE)
    /\ gets' = [gets EXCEPT ![g] = IdleGet]
    /\ UNCHANGED <<rows, cache, now, writes, nextId, uiVars>>

\* POST: if (!name || !country || !city || !Array.isArray(rateAvailability))
PostRejected(body) ==
    \/ body.name = Undefined \/ Len(body.name) = 0
    \/ body.country = Undefined \/ Len(body.country) = 0
    \/ body.city = Undefined \/ Len(body.city) = 0
    \/ ~IsArray(body.rateAvailability)

\* a write request arrives: the middleware chain, then the handler up to its
\* await pool.query
WriteStart(w, kind, token, id, body) ==
    /\ writes[w].pc = "idle"
    /\ w = LowestIdle(WSlots, writes)
    /\ IF Gate(token) # 0
       THEN /\ lastResp' = WriteResp(kind, token, Gate(token), <<>>)
            /\ UNCHANGED <<writes, nextId>>
       ELSE IF kind = "POST" /\ PostRejected(body)
       THEN /\ lastResp' = WriteResp(kind, token, 400, <<>>)
            /\ UNCHANGED <<writes, nextId>>
       ELSE /\ kind = "POST" => nextId <= MaxIds
            /\ writes' = [writes EXCEPT ![w] =
                            [IdleWrite EXCEPT !.pc = "db", !.kind = kind,
                                              !.token = token,
                                              !.id = IF kind = "POST" THEN nextId ELSE id,
                                              !.body = body]]
            /\ nextId' = IF kind = "POST" THEN nextId + 1 ELSE nextId
            /\ UNCHANGED lastResp
    /\ UNCHANGED <<rows, cache, now, gets, uiVars>>

\* insert into hotels (...) values ($1, ..., $6) returning *
InsertRow(id, body) ==
    [id |-> id, name |-> body.name, country |-> body.country,
     city |-> body.city, stars |-> body.stars,
     rate_availability |-> body.rateAvailability]

Coalesce(x, old) == IF x = Undefined THEN old ELSE x

\* update hotels set name = coalesce($2, name), ..., stars = $5,
\* rate_availability = coalesce($6, rate_availability) where id = $1
UpdateRow(row, body) ==
    [id |-> row.id,
     name |-> Coalesce(body.name, row.name),
     country |-> Coalesce(body.country, row.country),
     city |-> Coalesce(body.city, row.city),
     stars |-> body.stars,
     rate_availability |-> IF JsTruthy(body.rateAvailability)
                           THEN body.rateAvailability
                           ELSE row.rate_availability]

HasId(table, id) == \E i \in 1..Len(table) : table[i].id = id

\* the table after the statement of write request r
ApplyWrite(table, r) ==
    IF r.kind = "POST" THEN Append(table, InsertRow(r.id, r.body))
    ELSE IF r.kind = "PUT"
    THEN [i \in 1..Len(table) |->
            IF table[i].id = r.id THEN UpdateRow(table[i], r.body) ELSE table[i]]
    ELSE LET Other(row) == row.id # r.id IN SelectSeq(table, Other)

\* the mutation: every statement reports a touched row
RowCountOne(table, r) == 1

\* rows.length / result.rowCount of the statement
RowCount(table, r) == IF r.kind = "POST" \/ HasId(table, r.id) THEN 1 ELSE 0

ReturnedRow(table, r) ==
    LET after == ApplyWrite(table, r)
        Mine(row) == row.id = r.id
    IN  IF r.kind = "DELETE" THEN <<>> ELSE SelectSeq(after, Mine)

\* the store executes the statement of write request w
WriteDb(w) ==
    /\ writes[w].pc = "db"
    /\ LET changed == RowCount(rows, writes[w]) > 0 IN
       /\ rows' = ApplyWrite(rows, writes[w])
       /\ writes' = [writes EXCEPT ![w].pc = "fin",
                                   ![w].rowCount = RowCount(rows, writes[w]),
                                   ![w].returned = ReturnedRow(rows, writes[w])]
       \* history: what was read from the store before this statement
       /\ gets' = [g \in GSlots |->
                    IF changed /\ gets[g].pc \in {"data", "fin"}
                    THEN [gets[g] EXCEPT !.before = @ \cup {w}]
                    ELSE gets[g]]
       /\ cache' = [k \in DOMAIN cache |->
                    IF changed THEN [cache[k] EXCEPT !.before = @ \cup {w}]
                    ELSE cache[k]]
    /\ UNCHANGED <<now, lastResp, nextId, uiVars>>

\* history: write w has completed; what was read before it is stale now
\* (pre: the filter set had an entry in the cache when the write cleared it)
MarkStale(c, w) ==
    [k \in DOMAIN c |->
        IF w \in c[k].before
        THEN [c[k] EXCEPT !.before = @ \ {w}, !.stale = TRUE,
                          !.pre = TRUE]
        ELSE c[k]]

\* the continuation of a write: 404 when no row was touched, else
\* cache.clear() and the answer
WriteFinish(w) ==
    /\ writes[w].pc = "fin"
    /\ IF writes[w].rowCount = 0
       THEN /\ lastResp' = WriteResp(writes[w].kind, writes[w].token, 404, <<>>)
            /\ UNCHANGED <<cache, gets>>
       ELSE /\ cache' = CacheClear(MarkStale(cache, w))
            /\ gets' = [g \in GSlots |->
                         IF w \in gets[g].before
                         THEN [gets[g] EXCEPT !.before = @ \ {w}, !.stale = TRUE,
                                  !.pre = @ \/ getCacheKey(gets[g].q) \in DOMAIN cache]
                         ELSE gets[g]]
            /\ lastResp' = WriteResp(writes[w].kind, writes[w].token,
                                     IF writes[w].kind = "POST" THEN 201 ELSE 200,
                                     writes[w].returned)
    /\ writes' = [writes EXCEPT ![w] = IdleWrite]
    /\ UNCHANGED <<rows, now, nextId, uiVars>>

\* pool.query rejects (the store is unreachable): catch, 500
WriteDbError(w) ==
    /\ writes[w].pc = "db"
    /\ lastResp' = WriteResp(writes[w].kind, writes[w].token, 500, <<>>)
    /\ writes' = [writes EXCEPT ![w] = IdleWrite]
    /\ UNCHANGED <<rows, cache, now, gets, nextId, uiVars>>

\* time passes
Tick(d) ==
    /\ now + d <= MaxTicks * CACHE_TTL
    /\ now' = now + d
    /\ UNCHANGED <<rows, cache, gets, writes, lastResp, nextId, uiVars>>

YearRec(y, a) ==
    [year |-> y, available |-> a, contractStart |-> None, contractEnd |-> None]

\* the requests of the concurrent specification
QAll == NoQuery
QAvailable == [NoQuery EXCEPT !.contractStatus = Txt_available]
SpecQueries == {QAll, QAvailable}

Tokens == {NoToken, Token(FALSE, "admin"), Token(TRUE, "user"), Token(TRUE, "admin")}

BodyNew == [name |-> <<"h">>, country |-> <<"k">>, city |-> <<"c">>,
            stars |-> None,
            rateAvailability |-> JArray(<<YearRec(CurrentYear, TRUE)>>)]
BodyPatch == [NoBody EXCEPT
                !.rateAvailability = JArray(<<YearRec(CurrentYear, FALSE)>>)]
WriteKinds == {"POST", "PUT", "DELETE"}

\* a write request: POST takes no id, DELETE no body
WriteReq(kind, token, id, body) ==
    [kind |-> kind, token |-> token,
     id |-> IF kind = "POST" THEN 0 ELSE id,
     body |-> IF kind = "DELETE" THEN NoBody ELSE body]

\* the write requests of the concurrent specification: an admin's
RaceWrites ==
    {WriteReq("POST", Token(TRUE, "admin"), 0, BodyNew)}
    \cup {WriteReq("PUT", Token(TRUE, "admin"), id, BodyPatch) : id \in 1..MaxIds}
    \cup {WriteReq("DELETE", Token(TRUE, "admin"), id, NoBody) : id \in 1..MaxIds}

ServerInit ==
    /\ rows = <<>>
    /\ cache = EmptyCache
    /\ now = 0
    /\ gets = [g \in GSlots |-> IdleGet]
    /\ writes = [w \in WSlots |-> IdleWrite]
    /\ lastResp = NoResp
    /\ nextId = 1

NoOut == [status |-> <<>>, variant |-> "none", tooltip |-> <<>>]

ResolverIdle ==
    /\ rHotel = [rateAvailability |-> <<>>]
    /\ rYear = None
    /\ rOut = NoOut

ViewsIdle == rGridOut = NoOut /\ rCardOut = NoOut

\* the dashboard before any hotel is loaded
ClientIdle ==
    /\ filters = DefaultFilters
    /\ draft = SyncDraft(DefaultFilters)
    /\ currentPage = 1
    /\ hotels = <<>>
    /\ listing = <<>>
    /\ lastEvent = "none"
    /\ DashIdle

Init == ServerInit /\ ResolverIdle /\ ViewsIdle /\ ClientIdle

Next ==
    \/ \E g \in GSlots, q \in SpecQueries : GetStart(g, q)
    \/ \E g \in GSlots : GetCount(g)
    \/ \E g \in GSlots : GetData(g)
    \/ \E g \in GSlots : GetFinish(g)
    \/ \E g \in GSlots : GetDbError(g)
    \/ \E w \in WSlots, r \in RaceWrites :
            WriteStart(w, r.kind, r.token, r.id, r.body)
    \/ \E w \in WSlots : WriteDb(w)
    \/ \E w \in WSlots : WriteFinish(w)
    \/ \E w \in WSlots : WriteDbError(w)
    \/ Tick(CACHE_TTL)

Spec == Init /\ [][Next]_vars

----------------------------------------------------------------------------
(* The role gate: write requests with every kind of token *)

GateWrites ==
    {WriteReq(kind, token, id, body) :
        kind \in WriteKinds, token \in Tokens, id \in 1..MaxIds,
        body \in {BodyNew, BodyPatch}}

GateNext ==
    \/ \E w \in WSlots, r \in GateWrites :
            WriteStart(w, r.kind, r.token, r.id, r.body)
    \/ \E w \in WSlots : WriteDb(w)
    \/ \E w \in WSlots : WriteFinish(w)
    \/ \E w \in WSlots : WriteDbError(w)

SpecGate == Init /\ [][GateNext]_vars

----------------------------------------------------------------------------
(* Claims C1, C2 *)

\* the listing the store would answer for q now
Fresh(q) == ListingResult(q, countQuery(rows, q), dataQuery(rows, q))

IsHit(r) == r.type = "GET" /\ r.status = 200 /\ r.hit

\* C1 (as stated): in every interleaving, a GET issued after a write has
\* completed, for a filter set that was cached before the write, is never
\* answered with a result read from the store before that write.
C1_NoStaleAnswer ==
    ~(IsHit(lastResp) /\ lastResp.stale /\ lastResp.pre)

\* C1 (amended): a GET issued after a completed write is answered with a result
\* read before that write only from an entry that a GET in flight during the
\* write stored after the write's cache.clear(); every entry no write has
\* overtaken holds the store's current answer.
C1_StaleOnlyByRace ==
    /\ IsHit(lastResp) /\ lastResp.stale => lastResp.raced
    /\ \A k \in DOMAIN cache :
          (cache[k].before = {} /\ ~cache[k].stale) => cache[k].data = Fresh(k[2])

\* the race: a filter set was cached, a write completed while a GET for it
\* was in flight, and a later GET is answered from the entry that GET stored,
\* which differs from the store's current answer
C1_Witness ==
    /\ IsHit(lastResp) /\ lastResp.stale /\ lastResp.raced /\ lastResp.pre
    /\ lastResp.body # Fresh(lastResp.q)

IsWriteResp(r) == r.type \in WriteKinds
IsAdmin(token) == token.present /\ token.valid /\ token.role = "admin"

\* C2: a write without a valid token is answered 401, one with a valid
\* non-admin token 403; only a valid admin token reaches the handler and the
\* store, and a 401/403 leaves the rows unchanged.
C2_RoleGate ==
    [][ /\ \A w \in WSlots : writes'[w].pc # "idle" => IsAdmin(writes'[w].token)
        /\ rows' # rows =>
              \E w \in WSlots : /\ writes[w].pc = "db"
                                /\ writes'[w].pc = "fin"
                                /\ IsAdmin(writes[w].token)
        /\ (IsWriteResp(lastResp') /\ lastResp' # lastResp) =>
              /\ (~lastResp'.token.present \/ ~lastResp'.token.valid)
                    => lastResp'.status = 401
              /\ (lastResp'.token.present /\ lastResp'.token.valid
                    /\ lastResp'.token.role # "admin") => lastResp'.status = 403
              /\ lastResp'.status \in {401, 403} =>
                    (rows' = rows /\ ~IsAdmin(lastResp'.token))
      ]_vars

\* a valid non-admin token asked to delete while a hotel exists: 403, hotel kept
C2_Witness ==
    /\ lastResp.type = "DELETE" /\ lastResp.status = 403
    /\ lastResp.token = Token(TRUE, "user")
    /\ Len(rows) = 1

----------------------------------------------------------------------------
(* The listing as a function of the table and the request: one GET, handled *)
(* with no other request in flight, on a table and a request drawn from     *)
(* the sets below.                                                          *)

MaxStore == 2

SeqsUpTo(S, n) == UNION {[1..k -> S] : k \in 0..n}

HotelOf(name, country, city, ra) ==
    [name |-> name, country |-> country, city |-> city, stars |-> None,
     rateAvailability |-> JArray(ra)]

\* sample hotels: a record for the current year, only a neighbouring year,
\* both flags in different years, no record, two records for one year
SampleHotels ==
    {HotelOf(<<"A", "b">>, <<"k">>, <<"c">>, <<YearRec(CurrentYear, TRUE)>>),
     HotelOf(<<"b">>, <<"k">>, <<"d">>, <<YearRec(CurrentYear - 1, TRUE)>>),
     HotelOf(<<"e">>, <<"m">>, <<"c">>,
             <<YearRec(CurrentYear, FALSE), YearRec(CurrentYear + 1, TRUE)>>),
     HotelOf(<<"a">>, <<"m">>, <<"d">>, <<>>),
     HotelOf(<<"e">>, <<"k">>, <<"c">>,
             <<YearRec(CurrentYear, FALSE), YearRec(CurrentYear, TRUE)>>)}

\* the table after POSTing the hotels of `bodies` in order
StoreOf(bodies) == [i \in 1..Len(bodies) |-> InsertRow(i, bodies[i])]

SmallStores == {StoreOf(bs) : bs \in SeqsUpTo(SampleHotels, MaxStore)}

\* tables of n hotels, for the page arithmetic
BigSizes == {99, 100, 101, 125, 201, 250}
BigStores ==
    {StoreOf([i \in 1..n |-> HotelOf(<<"h">>, <<"k">>, <<"c">>, <<>>)]) :
        n \in BigSizes}

QueryStores == SmallStores \cup BigStores

PageTexts == {Undefined, <<"1">>, <<"2">>, <<"3">>, <<"0">>, <<"a", "b", "c">>}
LimitTexts == {Undefined, <<"0">>, <<"1">>, <<"5", "0">>, <<"1", "0", "0">>,
               <<"1", "0", "1">>, <<"1", "0", "0", "0">>, <<"x">>}

PageRequests ==
    {[NoQuery EXCEPT !.page = p, !.limit = l] : p \in PageTexts, l \in LimitTexts}

FilterRequests ==
    {[page |-> p, limit |-> l, search |-> s, country |-> c, city |-> Undefined,
      year |-> y, contractStatus |-> st] :
        p \in {Undefined, <<"2">>}, l \in {Undefined, <<"1">>},
        s \in {Undefined, <<"a">>}, c \in {Undefined, <<"k">>},
        y \in {Undefined, NatToChars(CurrentYear - 1), <<"a", "b", "c">>},
        st \in {Undefined, Txt_all, Txt_available, Txt_unavailable}}

AllRequests == PageRequests \cup FilterRequests

RequestsFor(table) ==
    IF Len(table) > MaxStore THEN PageRequests ELSE AllRequests

QueryInit ==
    /\ rows \in QueryStores
    /\ cache = EmptyCache
    /\ now = 0
    /\ gets = [g \in GSlots |-> IdleGet]
    /\ writes = [w \in WSlots |-> IdleWrite]
    /\ lastResp = NoResp
    /\ nextId = Len(rows) + 1
    /\ ResolverIdle /\ ViewsIdle /\ ClientIdle

\* the one request of a behaviour arrives
QueryArrives ==
    /\ lastResp = NoResp
    /\ gets[1].pc = "idle"
    /\ \E q \in RequestsFor(rows) : GetStart(1, q)

QueryNext ==
    \/ QueryArrives
    \/ GetCount(1)
    \/ GetData(1)
    \/ GetFinish(1)

SpecQuery == QueryInit /\ [][QueryNext]_vars

----------------------------------------------------------------------------
(* Claims C3 .. C7: the listing *)

IsListing(r) == r.type = "GET" /\ r.status = 200

ApiSeq(found) == [i \in 1..Len(found) |-> toApi(found[i])]

\* the slice [o, o + l) of a list
Slice(list, o, l) == SubSeq(list, o + 1, MinOf(o + l, Len(list)))

HasYearRecord(row, y, flag) ==
    /\ row.rate_availability.t = "array"
    /\ \E i \in 1..Len(row.rate_availability.v) :
          /\ row.rate_availability.v[i].year = y
          /\ row.rate_availability.v[i].available = flag

\* the rows that match the filters of q other than contractStatus and hold a
\* record (y, flag), most recently created first
Qualifying(table, q, flag) ==
    LET others == [q EXCEPT !.contractStatus = Txt_all]
        Keep(row) == /\ WhereMatch(row, others)
                     /\ HasYearRecord(row, parseInt(yearOf(q)).v, flag)
    IN  Reverse(SelectSeq(table, Keep))

\* C3: with contractStatus available (unavailable) and year y the listing is
\* exactly the hotels matching the other filters that hold a record with
\* year = y and available = true (false).
C3_ExactYearFilter ==
    (IsListing(lastResp)
        /\ contractStatusOf(lastResp.q) \in {Txt_available, Txt_unavailable}) =>
    LET q == lastResp.q
        want == Qualifying(rows, q, contractStatusOf(q) = Txt_available)
    IN  /\ lastResp.body.pagination.total = Num(Len(want))
        /\ lastResp.body.hotels = ApiSeq(Slice(want, offset(q).v, limitNum(q).v))

\* the view would show the hotel as available for year y
DisplaysAvailable(row, y) ==
    getContractStatus([rateAvailability |-> row.rate_availability.v], Some(y)).variant
        = "default"

\* a hotel whose nearest-year record displays as available is left out of a
\* non-empty listing of the hotels available in the current year
C3_Witness ==
    /\ IsListing(lastResp)
    /\ contractStatusOf(lastResp.q) = Txt_available
    /\ lastResp.q.year = Undefined /\ lastResp.q.page = Undefined
    /\ lastResp.q.limit = Undefined
    /\ Len(lastResp.body.hotels) = 1
    /\ \E i \in 1..Len(rows) :
          /\ WhereMatch(rows[i], [lastResp.q EXCEPT !.contractStatus = Txt_all])
          /\ ~HasYearRecord(rows[i], CurrentYear, TRUE)
          /\ DisplaysAvailable(rows[i], CurrentYear)
          /\ lastResp.body.hotels[1].id # rows[i].id

\* C4: whatever limit is requested, a listing holds at most 100 hotels and
\* reports pagination.limit <= 100.
C4_LimitClamp ==
    IsListing(lastResp) =>
        /\ Len(lastResp.body.hotels) <= 100
        /\ IsNum(lastResp.body.pagination.limit)
        /\ lastResp.body.pagination.limit.v <= 100

\* limit=1000 on a table of more than 100 hotels: 100 are returned
C4_Witness ==
    /\ IsListing(lastResp)
    /\ lastResp.q.limit = <<"1", "0", "0", "0">>
    /\ Len(rows) > 100
    /\ Len(lastResp.body.hotels) = 100

\* C5: page p of a listing starts at offset (p-1) * L of the filtered,
\* ordered rows, L the limit reported in pagination.limit.
C5_OffsetByEffectiveLimit ==
    (IsListing(lastResp) /\ IsNum(lastResp.body.pagination.page)
        /\ lastResp.body.pagination.page.v >= 1) =>
    LET q == lastResp.q
        p == lastResp.body.pagination.page.v
        L == lastResp.body.pagination.limit.v
    IN  lastResp.body.hotels
            = ApiSeq(Slice(Reverse(Matching(rows, q)), (p - 1) * L, L))

\* C6: total = T, totalPages = ceil(T / L), every page before the last holds
\* L rows and the last page T - (totalPages-1)*L rows.
C6_PageSizes ==
    (IsListing(lastResp) /\ IsNum(lastResp.body.pagination.page)
        /\ lastResp.body.pagination.page.v >= 1
        /\ lastResp.body.pagination.limit.v >= 1) =>
    LET q == lastResp.q
        p == lastResp.body.pagination.page.v
        L == lastResp.body.pagination.limit.v
        T == Len(Matching(rows, q))
        tp == (T + L - 1) \div L
    IN  /\ lastResp.body.pagination.total = Num(T)
        /\ lastResp.body.pagination.totalPages = Num(tp)
        /\ p < tp => Len(lastResp.body.hotels) = L
        /\ p = tp => Len(lastResp.body.hotels) = T - (tp - 1) * L

NonNumeric(x) == x # Undefined /\ ~IsNum(parseInt(x))
DropNonNumeric(x) == IF NonNumeric(x) THEN Undefined ELSE x

\* C7: a GET whose page, limit or year is non-numeric is answered as the
\* listing computed with the default for that parameter, not as an error.
C7_MalformedFallsBack ==
    (lastResp.type = "GET"
        /\ (NonNumeric(lastResp.q.page) \/ NonNumeric(lastResp.q.limit)
            \/ NonNumeric(lastResp.q.year))) =>
    LET q == lastResp.q
        qd == [q EXCEPT !.page = DropNonNumeric(q.page),
                        !.limit = DropNonNumeric(q.limit),
                        !.year = DropNonNumeric(q.year)]
    IN  /\ lastResp.status = 200
        /\ ~PageRejected(qd) =>
              lastResp.body = ListingResult(qd, countQuery(rows, qd),
                                            dataQuery(rows, qd))

----------------------------------------------------------------------------
(* The resolver as a function of the hotel and the year prop *)

MaxRecs == 3

ResolverYears == (CurrentYear - 1)..(CurrentYear + 2)

ResolverRecs ==
    {[year |-> y, available |-> a, contractStart |-> d[1], contractEnd |-> d[2]] :
        y \in ResolverYears, a \in BOOLEAN,
        d \in {<<None, None>>, <<Some("2024-01-01"), Some("2024-12-31")>>}}

ResolverInit ==
    /\ ServerInit
    /\ rHotel \in {[rateAvailability |-> l] : l \in SeqsUpTo(ResolverRecs, MaxRecs)}
    /\ rYear \in {None, Some(CurrentYear), Some(CurrentYear + 1)}
    /\ rOut = NoOut
    /\ ViewsIdle /\ ClientIdle

\* the table view renders the badge of the hotel
Resolve ==
    /\ rOut = NoOut
    /\ rOut' = getContractStatus(rHotel, rYear)
    /\ UNCHANGED <<serverVars, rHotel, rYear, viewVars, clientVars, dashVars>>

ResolverNext == Resolve

SpecResolver == ResolverInit /\ [][ResolverNext]_vars

----------------------------------------------------------------------------
(* Claims C8 .. C10: the resolver *)

TargetYear == IF Len(rYear) = 1 THEN rYear[1] ELSE CurrentYear
Recs == rHotel.rateAvailability
Resolved == rOut # NoOut
HasExact == \E i \in 1..Len(Recs) : Recs[i].year = TargetYear
Dist(i) == Abs(Recs[i].year - TargetYear)

\* the first record, in list order, among those nearest to the target year
FirstNearest ==
    CHOOSE i \in 1..Len(Recs) :
        /\ \A j \in 1..Len(Recs) : Dist(i) <= Dist(j)
        /\ \A j \in 1..(i - 1) : Dist(j) > Dist(i)

\* the first record, in list order, of the target year
FirstExact ==
    CHOOSE i \in 1..Len(Recs) :
        /\ Recs[i].year = TargetYear
        /\ \A j \in 1..(i - 1) : Recs[j].year # TargetYear

Mentions(text, token) == \E k \in 1..Len(text) : text[k] = token

\* C8: with no record of the target year and a non-empty list, the resolver
\* uses a record at minimal distance, the first such in list order.
C8_NearestFirstInListOrder ==
    (Resolved /\ ~HasExact /\ Len(Recs) > 0) =>
        rOut = FoundResult(Recs[FirstNearest], TRUE, TargetYear)

\* target 2024, list [2025, 2023]: the record of 2025 is used
C8_Witness ==
    /\ Resolved /\ TargetYear = CurrentYear /\ Len(Recs) = 2
    /\ Recs[1].year = CurrentYear + 1 /\ Recs[2].year = CurrentYear - 1
    /\ Recs[1].available /\ ~Recs[2].available
    /\ rOut.status = <<"Available (", ToString(CurrentYear + 1), ")">>

\* C9: when a record of the target year exists, the first such record is
\* used, never the nearest-year fallback; the status is available iff its
\* flag is true.
C9_ExactFirstMatch ==
    (Resolved /\ HasExact) =>
        /\ rOut = FoundResult(Recs[FirstExact], FALSE, TargetYear)
        /\ (rOut.variant = "default") <=> Recs[FirstExact].available
        /\ rOut.variant \in {"default", "destructive"}
        /\ ~Mentions(rOut.tooltip, " (showing ")

\* two records of the target year with different flags: the first decides
C9_Witness ==
    /\ Resolved /\ Len(Recs) = 3
    /\ Recs[1].year # TargetYear
    /\ Recs[2].year = TargetYear /\ Recs[3].year = TargetYear
    /\ ~Recs[2].available /\ Recs[3].available
    /\ rOut.variant = "destructive"

\* C10: for an empty list the resolver returns the no-data status for every
\* target year, with a label that contains the target year.
C10_EmptyIsNoData ==
    (Resolved /\ Len(Recs) = 0) =>
        /\ rOut.variant = "secondary"
        /\ rOut.status[1] = "No Data ("
        /\ Mentions(rOut.status, ToString(TargetYear))
        /\ ~Mentions(rOut.status, "Unavailable")
        /\ \A k \in 1..Len(rOut.status) : rOut.status[k] # "Available ("

C10_Witness ==
    /\ Resolved /\ Len(Recs) = 0 /\ rYear = Some(CurrentYear + 1)
    /\ rOut.status = <<"No Data (", ToString(CurrentYear + 1), ")">>

----------------------------------------------------------------------------
(* The three views render the same hotel for the same year *)

\* the grid view renders the badge of the hotel
ResolveGrid ==
    /\ rGridOut = NoOut
    /\ rGridOut' = GridGetContractStatus(rHotel, rYear)
    /\ UNCHANGED <<serverVars, resolverVars, rCardOut, clientVars, dashVars>>

\* the card view renders the badge of the hotel
ResolveCard ==
    /\ rCardOut = NoOut
    /\ rCardOut' = CardGetContractStatus(rHotel, rYear)
    /\ UNCHANGED <<serverVars, resolverVars, rGridOut, clientVars, dashVars>>

ViewsNext == Resolve \/ ResolveGrid \/ ResolveCard

SpecViews == ResolverInit /\ [][ViewsNext]_vars

----------------------------------------------------------------------------
(* Claims C11 .. C13: what the resolver's output says *)

\* C11: for every hotel and target year the table view, the grid view and the
\* card view return the same status, variant and tooltip.
C11_ViewsAgree ==
    /\ (rOut # NoOut /\ rGridOut # NoOut) => rOut = rGridOut
    /\ (rOut # NoOut /\ rCardOut # NoOut) => rOut = rCardOut
    /\ (rGridOut # NoOut /\ rCardOut # NoOut) => rGridOut = rCardOut

\* the record the resolver uses: the first exact match, else the first nearest
UsedRecord == IF HasExact THEN Recs[FirstExact] ELSE Recs[FirstNearest]
HasRange(rec) == Truthy(rec.contractStart) /\ Truthy(rec.contractEnd)
Says(out, token) == Mentions(out.status, token) \/ Mentions(out.tooltip, token)

\* C12: whenever a record is used, available or not, label and tooltip
\* indicate the year of that record, and its contract date range whenever
\* both of its dates are present (here: between them, in the label or in the
\* tooltip).
C12_YearAndRangeShown ==
    (Resolved /\ Len(Recs) > 0) =>
        /\ Says(rOut, ToString(UsedRecord.year))
        /\ HasRange(UsedRecord) =>
              /\ Says(rOut, UsedRecord.contractStart[1])
              /\ Says(rOut, UsedRecord.contractEnd[1])

\* C13: the output carries the nearest-fallback note exactly when the year of
\* the record used differs from the target year, available or not; the note
\* names both years.
C13_NoteIffYearDiffers ==
    (Resolved /\ Len(Recs) > 0) =>
        /\ Says(rOut, " (showing ") <=> (UsedRecord.year # TargetYear)
        /\ Says(rOut, "; no data for ") <=> (UsedRecord.year # TargetYear)
        /\ (UsedRecord.year # TargetYear) =>
              \E k \in 1..(Len(rOut.tooltip) - 4) :
                  SubSeq(rOut.tooltip, k, k + 4)
                    = <<" (showing ", ToString(UsedRecord.year),
                        "; no data for ", ToString(TargetYear), ")">>

\* an unavailable record of a neighbouring year is used, and the note says so
C13_Witness ==
    /\ Resolved /\ Len(Recs) = 1 /\ ~Recs[1].available
    /\ Recs[1].year = CurrentYear - 1 /\ TargetYear = CurrentYear
    /\ rOut.tooltip = <<"Unavailable in ", ToString(CurrentYear - 1),
                        " (showing ", ToString(CurrentYear - 1),
                        "; no data for ", ToString(CurrentYear), ")">>

----------------------------------------------------------------------------
(* The client: the filter component inside the dashboard *)

MaxPage == 2

\* the i-th hotel of the dashboard: names with and without an "a", two
\* countries, two cities, and the four kinds of availability list
ClientHotel(i) ==
    [id |-> i,
     name |-> IF i % 2 = 0 THEN <<"A", "b">> ELSE <<"e">>,
     country |-> IF i % 3 = 0 THEN <<"k">> ELSE <<"m">>,
     city |-> IF i % 5 < 2 THEN <<"c">> ELSE <<"d">>,
     rateAvailability |->
        CASE i % 4 = 0 -> <<YearRec(CurrentYear, TRUE)>>
          [] i % 4 = 1 -> <<YearRec(CurrentYear - 1, TRUE)>>
          [] i % 4 = 2 -> <<YearRec(CurrentYear, FALSE),
                            YearRec(CurrentYear + 1, TRUE)>>
          [] OTHER -> <<>>]

\* a list that fits one page and one that needs two
ClientHotelLists == {[i \in 1..n |-> ClientHotel(i)] : n \in {3, ItemsPerPage + 2}}

\* what the user can put into an input: the key and the raw value
Edits ==
    {<<"search", t>> : t \in {<<>>, <<"a">>}}
    \cup {<<"country", t>> : t \in {Txt_all, <<"k">>}}
    \cup {<<"city", t>> : t \in {Txt_all, <<"c">>}}
    \cup {<<"year", NatToChars(y)>> : y \in {CurrentYear, CurrentYear + 1}}
    \cup {<<"contractStatus", t>> : t \in {Txt_all, Txt_available, Txt_unavailable}}

\* filter sets a parent may hand down
ExternalFilterSets ==
    {DefaultFilters,
     [search |-> <<"a">>, country |-> <<"k">>, city |-> <<>>,
      year |-> CurrentYear + 1, contractStatus |-> Txt_available]}

\* the dashboard after the hotels were loaded
ClientInit ==
    /\ ServerInit /\ ResolverIdle /\ ViewsIdle
    /\ hotels \in ClientHotelLists
    /\ filters = DefaultFilters
    /\ draft = SyncDraft(DefaultFilters)
    /\ currentPage = 1
    /\ listing = paginatedHotels(filteredHotels(hotels, filters), currentPage)
    /\ lastEvent = "none"
    /\ DashIdle

ClientNext ==
    \/ \E e \in Edits : Edit(e[1], e[2])
    \/ Apply
    \/ EnterInSearch
    \/ Clear
    \/ \E f \in ExternalFilterSets : ExternalSet(f)
    \/ \E p \in 1..MaxPage : GoToPage(p)

SpecClient == ClientInit /\ [][ClientNext]_vars

----------------------------------------------------------------------------
(* Claims C14 .. C19: draft, committed filters, page and listing *)

FilterKeys == {"search", "country", "city", "year", "contractStatus"}

\* the default filter set, as the specification words it
SpecDefaults ==
    [search |-> <<>>, country |-> <<>>, city |-> <<>>, year |-> CurrentYear,
     contractStatus |-> Txt_all]

\* the hotels that match the committed filters, cut to the page
CommittedListing ==
    LET Keep(h) == matchesHotel(h, filters)
    IN  paginatedHotels(SelectSeq(hotels, Keep), currentPage)

\* C14: an edit of a filter field changes that field of the draft, to the
\* value entered, and nothing else: not the committed filters, not the page,
\* not another field of the draft.
C14_EditTouchesOneDraftField ==
    [][ lastEvent' = "edit" =>
          /\ filters' = filters
          /\ currentPage' = currentPage
          /\ \E e \in Edits :
                /\ draft'[e[1]] = (IF e[2] = Txt_all /\ e[1] \in {"country", "city"}
                                   THEN <<>>
                                   ELSE IF e[1] = "year"
                                        THEN DigitsToNat(e[2], 0)
                                        ELSE e[2])
                /\ \A k \in FilterKeys \ {e[1]} : draft'[k] = draft[k]
      ]_vars

\* three successive edits on page 2: three draft fields differ, nothing is committed
C14_Witness ==
    /\ lastEvent = "edit"
    /\ draft.search = <<"a">> /\ draft.country = <<"k">>
    /\ draft.year = CurrentYear + 1
    /\ filters = SpecDefaults
    /\ currentPage = 2

\* C15: Apply makes the committed filters equal to the draft in all five
\* fields, and the listing that follows is page 1 of the hotels they match.
C15_ApplyCommitsDraft ==
    [][ lastEvent' = "apply" =>
          /\ \A k \in FilterKeys : filters'[k] = draft[k]
          /\ currentPage' = 1
          /\ listing' = CommittedListing'
      ]_vars

\* Apply has committed a country and a status; the listing holds matches only
C15_Witness ==
    /\ lastEvent = "apply"
    /\ filters.country = <<"k">> /\ filters.contractStatus = Txt_available
    /\ currentPage = 1
    /\ Len(listing) > 0
    /\ \A i \in 1..Len(listing) : listing[i].country = <<"k">>

\* C16: Clear leaves draft and committed filters equal to the defaults, and
\* the listing that follows is page 1.
C16_ClearResetsBoth ==
    [][ lastEvent' = "clear" =>
          /\ filters' = SpecDefaults
          /\ draft' = SpecDefaults
          /\ currentPage' = 1
          /\ listing' = paginatedHotels(hotels, 1)
      ]_vars

\* Clear was pressed; every hotel of the first page is listed again
C16_Witness ==
    /\ lastEvent = "clear"
    /\ filters = SpecDefaults /\ draft = SpecDefaults
    /\ currentPage = 1
    /\ Len(hotels) > ItemsPerPage /\ Len(listing) = ItemsPerPage

\* C17: Enter in the search field does what Apply does in the same state:
\* where Apply is enabled, the draft is committed and page 1 shown; where
\* Apply is disabled (draft equal to committed), nothing changes.
C17_EnterIsApply ==
    [][ lastEvent' = "enter" =>
          IF hasChanges
          THEN /\ filters' = draft /\ draft' = draft /\ currentPage' = 1
               /\ listing' = CommittedListing'
          ELSE UNCHANGED <<filters, draft, currentPage, listing>>
      ]_vars

----------------------------------------------------------------------------
(* The cache around its time to live: the requests of Spec, with the clock  *)
(* also stopping one millisecond before each multiple of CACHE_TTL          *)

TtlTick ==
    \/ now % CACHE_TTL = 0 /\ Tick(CACHE_TTL - 1)
    \/ now % CACHE_TTL = CACHE_TTL - 1 /\ Tick(1)

TtlNext == Next \/ TtlTick

SpecTTL == Init /\ [][TtlNext]_vars

\* a GET is answered from the cache in this step
HitStep == lastResp' # lastResp /\ IsHit(lastResp')

\* the entry of q exists and is younger than five minutes
YoungEntry(q) ==
    /\ getCacheKey(q) \in DOMAIN cache
    /\ now - cache[getCacheKey(q)].timestamp < 5 * 60 * 1000

\* C20: a GET is answered from the cache only if an entry exists for its key
\* with now - storedAt < 5 minutes, and then with that entry's data; otherwise
\* (no entry, or age 5 minutes or more) the store is queried, and when the
\* answer arrives the entry is replaced, with the current time as timestamp.
C20_TtlStrict ==
    [][ /\ HitStep =>
              /\ YoungEntry(lastResp'.q)
              /\ lastResp'.body = cache[getCacheKey(lastResp'.q)].data
        /\ \A g \in GSlots :
              /\ (gets[g].pc = "idle" /\ gets'[g].pc = "count") =>
                    ~YoungEntry(gets'[g].q)
              /\ (gets[g].pc = "fin" /\ gets'[g].pc = "idle") =>
                    LET key == getCacheKey(gets[g].q)
                    IN  /\ key \in DOMAIN cache'
                        /\ cache'[key].timestamp = now
                        /\ cache'[key].data = lastResp'.body
      ]_vars

\* an entry of age exactly five minutes is there, and the store is being
\* queried for its key
C20_Witness ==
    \E g \in GSlots :
        /\ gets[g].pc = "count"
        /\ getCacheKey(gets[g].q) \in DOMAIN cache
        /\ now - cache[getCacheKey(gets[g].q)].timestamp = CACHE_TTL

----------------------------------------------------------------------------
(* Write requests with arbitrary bodies, one request at a time: every      *)
(* property of the body present or absent, the create's values differing   *)
(* from the update's, rateAvailability also a truthy value that is no      *)
(* array; every kind of token; known and unknown ids.                      *)

TwoYears == JArray(<<YearRec(CurrentYear - 1, FALSE), YearRec(CurrentYear, TRUE)>>)
OneYear == JArray(<<YearRec(CurrentYear + 1, FALSE)>>)

BodiesOf(name, country, city, stars, ra) ==
    {[name |-> n, country |-> k, city |-> c, stars |-> s, rateAvailability |-> j] :
        n \in {Undefined, name}, k \in {Undefined, country},
        c \in {Undefined, city}, s \in {None, Some(stars)},
        j \in {JUndefined, JString, ra}}

PostBodies == BodiesOf(<<"h">>, <<"k">>, <<"c">>, 5, TwoYears)
PutBodies == BodiesOf(<<"i">>, <<"l">>, <<"d">>, 4, OneYear)

AnyWrites ==
    {WriteReq("POST", token, 0, body) : token \in Tokens, body \in PostBodies}
    \cup {WriteReq("PUT", token, id, body) :
            token \in Tokens, id \in 1..(MaxIds + 1), body \in PutBodies}
    \cup {WriteReq("DELETE", token, id, NoBody) :
            token \in Tokens, id \in 1..(MaxIds + 1)}

NoGetInFlight == \A g \in GSlots : gets[g].pc = "idle"
NoWriteInFlight == \A w \in WSlots : writes[w].pc = "idle"

WriteNext ==
    \/ \E g \in GSlots : NoWriteInFlight /\ GetStart(g, QAll)
    \/ \E g \in GSlots : GetCount(g)
    \/ \E g \in GSlots : GetData(g)
    \/ \E g \in GSlots : GetFinish(g)
    \/ \E w \in WSlots, r \in AnyWrites :
            NoGetInFlight /\ WriteStart(w, r.kind, r.token, r.id, r.body)
    \/ \E w \in WSlots : WriteDb(w)
    \/ \E w \in WSlots : WriteFinish(w)

SpecWrite == Init /\ [][WriteNext]_vars

----------------------------------------------------------------------------
(* The dashboard's writes: handleAddHotel and handleDeleteHotel.  Each is  *)
(* an async function: it runs to its `await fetch` in one step, and its    *)
(* continuation runs when the response arrives.  The server handles the    *)
(* request on arrival of the response step, as one request with no other   *)
(* in between; fetch rejects when the request does not reach the server.   *)

MaxCalls == 2
MaxAdds == 1
MaxDeletes == 1

\* res.json() of a hotel: the body's rateAvailability as the list it holds
HotelFromApi(a) ==
    [id |-> a.id, name |-> a.name, country |-> a.country, city |-> a.city,
     stars |-> a.stars, rateAvailability |-> a.rateAvailability.v]

\* JSON.stringify(hotelData) as the server destructures it
BodyOfForm(data) ==
    [name |-> data.name, country |-> data.country, city |-> data.city,
     stars |-> Some(data.stars),
     rateAvailability |-> JArray(data.rateAvailability)]

\* the answer of the server to a write request handled on its own
WriteStatus(table, req) ==
    IF Gate(req.token) # 0 THEN Gate(req.token)
    ELSE IF req.kind = "POST" /\ PostRejected(req.body) THEN 400
    ELSE IF RowCount(table, req) = 0 THEN 404
    ELSE IF req.kind = "POST" THEN 201 ELSE 200

\* res.ok
Ok(status) == status >= 200 /\ status <= 299

\* the server handles write request req: middleware, statement,
\* cache.clear(), answer
ServeWrite(req) ==
    LET status == WriteStatus(rows, req) IN
    /\ rows' = IF Ok(status) THEN ApplyWrite(rows, req) ELSE rows
    /\ cache' = IF Ok(status) THEN CacheClear(cache) ELSE cache
    /\ lastResp' = WriteResp(req.kind, req.token, status,
                             IF Ok(status) THEN ReturnedRow(rows, req) ELSE <<>>)
    /\ nextId' = IF req.kind = "POST" /\ Ok(status) THEN nextId + 1 ELSE nextId
    /\ UNCHANGED <<now, gets, writes>>

\* the request of call c as the session's token makes it
RequestOf(c, token) ==
    [kind |-> c.kind, token |-> token,
     id |-> IF c.kind = "POST" THEN nextId ELSE c.id, body |-> c.body]

\* the outcome of `await fetch(...)`: the server's answer, or a rejection
Succeeds(c, token, reaches) ==
    reaches /\ Ok(WriteStatus(rows, RequestOf(c, token)))

\* the server's part of the step in which call c resolves
Served(c, token, reaches) ==
    IF reaches THEN ServeWrite(RequestOf(c, token)) ELSE UNCHANGED serverVars

CallsOf(kind) == {c \in calls : c.kind = kind}

\* Math.ceil(filteredHotels.length / itemsPerPage)
totalPages(fh) == MathCeilDiv(Len(fh), ItemsPerPage).v

\* a page button of HotelPagination: the pages it offers are 1..totalPages
PageClick(p) ==
    /\ p \in 1..totalPages(filteredHotels(hotels, filters))
    /\ GoToPage(p)

\* handleAddHotel up to its await
AddStart(hotelData) ==
    /\ Cardinality(calls) < MaxCalls
    /\ Cardinality(CallsOf("POST")) + Len(hotels) < ItemsPerPage + 1 + MaxAdds
    /\ calls' = calls \cup {[kind |-> "POST", id |-> 0, body |-> BodyOfForm(hotelData)]}
    /\ lastEvent' = "add"
    /\ UNCHANGED <<filters, draft, currentPage, hotels, listing>>
    /\ UNCHANGED <<toasts, editingHotel, formData, pagination>>
    /\ UNCHANGED <<serverVars, resolverVars, viewVars>>

\* handleAddHotel after its await
AddResolves(c, token, reaches) ==
    /\ c \in calls /\ c.kind = "POST"
    /\ Served(c, token, reaches)
    /\ LET ok == Succeeds(c, token, reaches)
           created == HotelFromApi(toApi(InsertRow(nextId, c.body)))
       IN  /\ hotels' = IF ok THEN Append(hotels, created) ELSE hotels
           /\ toasts' = IF ok THEN <<"Hotel Added">> ELSE <<"Add failed">>
    /\ calls' = calls \ {c}
    /\ lastEvent' = "added"
    /\ UNCHANGED <<filters, draft, currentPage>>
    /\ listing' = Rendered
    /\ UNCHANGED <<editingHotel, formData, pagination>>
    /\ UNCHANGED <<resolverVars, viewVars>>

\* handleDeleteHotel up to its await, from the button of a displayed hotel
DeleteStart(hotelId) ==
    /\ \E i \in 1..Len(listing) : listing[i].id = hotelId
    /\ Cardinality(calls) < MaxCalls
    /\ Cardinality(CallsOf("DELETE")) + (nextId - 1 - Len(rows)) < MaxDeletes
    /\ calls' = calls \cup {[kind |-> "DELETE", id |-> hotelId, body |-> NoBody]}
    /\ lastEvent' = "delete"
    /\ UNCHANGED <<filters, draft, currentPage, hotels, listing>>
    /\ UNCHANGED <<toasts, editingHotel, formData, pagination>>
    /\ UNCHANGED <<serverVars, resolverVars, viewVars>>

\* the toasts of handleDeleteHotel: catch, then finally
DeleteToasts(ok) ==
    (IF ok THEN <<>> ELSE <<"Delete failed">>) \o <<"Hotel Deleted">>

\* handleDeleteHotel after its await
DeleteResolves(c, token, reaches) ==
    /\ c \in calls /\ c.kind = "DELETE"
    /\ Served(c, token, reaches)
    /\ LET ok == Succeeds(c, token, reaches)
           Other(h) == h.id # c.id
       IN  /\ hotels' = IF ok THEN SelectSeq(hotels, Other) ELSE hotels
           /\ toasts' = DeleteToasts(ok)
    /\ calls' = calls \ {c}
    /\ lastEvent' = IF Succeeds(c, token, reaches) THEN "deleted" ELSE "delete failed"
    /\ UNCHANGED <<filters, draft, currentPage>>
    /\ listing' = Rendered
    /\ UNCHANGED <<editingHotel, formData, pagination>>
    /\ UNCHANGED <<resolverVars, viewVars>>

\* the stored row of a hotel of the dashboard
RowOfHotel(h) ==
    [id |-> h.id, name |-> h.name, country |-> h.country, city |-> h.city,
     stars |-> Some(DefaultStars),
     rate_availability |-> JArray(h.rateAvailability)]

\* a store whose hotels need two pages, the second holding one hotel
DashRows == [i \in 1..(ItemsPerPage + 1) |-> RowOfHotel(ClientHotel(i))]

\* what the add form submits
NewHotelData ==
    [name |-> <<"n">>, country |-> <<"k">>, city |-> <<"c">>,
     stars |-> DefaultStars, rateAvailability |-> <<EmptyRate>>]

DashEdits == {<<"search", <<>>>>, <<"search", <<"e">>>>}

\* the dashboard after the hotels of the store were loaded
DashInit ==
    /\ rows = DashRows
    /\ cache = EmptyCache
    /\ now = 0
    /\ gets = [g \in GSlots |-> IdleGet]
    /\ writes = [w \in WSlots |-> IdleWrite]
    /\ lastResp = NoResp
    /\ nextId = Len(DashRows) + 1
    /\ ResolverIdle /\ ViewsIdle
    /\ hotels = [i \in 1..Len(rows) |-> HotelFromApi(toApi(rows[i]))]
    /\ filters = DefaultFilters
    /\ draft = SyncDraft(DefaultFilters)
    /\ currentPage = 1
    /\ listing = paginatedHotels(filteredHotels(hotels, filters), currentPage)
    /\ lastEvent = "none"
    /\ DashIdle

DashNext ==
    \/ \E e \in DashEdits : Edit(e[1], e[2])
    \/ Apply
    \/ \E p \in 1..MaxPage : PageClick(p)
    \/ AddStart(NewHotelData)
    \/ \E c \in calls, token \in Tokens, reaches \in BOOLEAN :
            AddResolves(c, token, reaches)
    \/ \E id \in 1..(ItemsPerPage + 1 + MaxAdds) : DeleteStart(id)
    \/ \E c \in calls, token \in Tokens, reaches \in BOOLEAN :
            DeleteResolves(c, token, reaches)

SpecDash == DashInit /\ [][DashNext]_vars

----------------------------------------------------------------------------
(* The server-side listing of the dashboard: fetchHotels.  The function    *)
(* runs to its `await fetch` in one step; the server handles the request   *)
(* and the continuation runs when the response arrives, in any order among *)
(* the calls in flight.                                                    *)

MaxFetches == 3

\* new URLSearchParams({...}) of fetchHotels
ParamsOf(f, page) ==
    [page |-> NatToChars(page), limit |-> NatToChars(ItemsPerPage),
     search |-> f.search, country |-> f.country, city |-> f.city,
     year |-> NatToChars(f.year), contractStatus |-> f.contractStatus]

\* what GET /api/hotels answers for q, handled on its own (the parameters
\* fetchHotels builds are never rejected by the store)
GetAnswer(table, c, t, q) ==
    IF isCacheValid(c, getCacheKey(q), t) THEN c[getCacheKey(q)].data
    ELSE ListingResult(q, countQuery(table, q), dataQuery(table, q))

\* the server handles GET /api/hotels?q
ServeGet(q) ==
    LET key == getCacheKey(q)
        hit == isCacheValid(cache, key, now)
        result == GetAnswer(rows, cache, now, q)
    IN  /\ cache' = IF hit THEN cache
                    ELSE CacheSet(cache, key,
                                  [data |-> result, timestamp |-> now,
                                   before |-> {}, stale |-> FALSE,
                                   raced |-> FALSE, pre |-> FALSE])
        /\ lastResp' = GetResp(q, 200, result, hit, FALSE, FALSE, FALSE)
        /\ UNCHANGED <<rows, now, gets, writes, nextId>>

MaxOf(set) == CHOOSE m \in set : \A n \in set : n <= m

\* fetchHotels(showLoading, page) up to its await; nothing is done about the
\* calls already in flight
FetchStart(page) ==
    /\ Cardinality(calls) < MaxCalls
    /\ LET n == 1 + MaxOf({c.seq : c \in CallsOf("GET")} \cup {pagination.seq})
       IN  /\ n <= MaxFetches
           /\ calls' = calls \cup {[kind |-> "GET", q |-> ParamsOf(filters, page),
                                    seq |-> n]}
    /\ lastEvent' = "fetch"
    /\ UNCHANGED <<filters, draft, currentPage, hotels, listing>>
    /\ UNCHANGED <<toasts, editingHotel, formData, pagination>>
    /\ UNCHANGED <<serverVars, resolverVars, viewVars>>

\* data of the response to call c as the three setters take it
FromResponse(c, data) ==
    [hotels |-> [i \in 1..Len(data.hotels) |-> HotelFromApi(data.hotels[i])],
     pagination |-> [total |-> data.pagination.total.v,
                     totalPages |-> data.pagination.totalPages.v,
                     seq |-> c.seq]]

\* the mutation: the response to a request older than the one shown is dropped
ShownUnlessOlder(c, data) ==
    IF c.seq < pagination.seq
    THEN [hotels |-> hotels, pagination |-> pagination]
    ELSE FromResponse(c, data)

\* setHotels(data.hotels); setTotalHotels(...); setTotalPages(...)
Shown(c, data) == FromResponse(c, data)

\* fetchHotels after its awaits
FetchResolves(c) ==
    /\ c \in calls /\ c.kind = "GET"
    /\ ServeGet(c.q)
    /\ LET data == GetAnswer(rows, cache, now, c.q) IN
       /\ hotels' = Shown(c, data).hotels
       /\ pagination' = Shown(c, data).pagination
    /\ calls' = calls \ {c}
    /\ lastEvent' = IF c.seq < pagination.seq THEN "older response" ELSE "response"
    /\ UNCHANGED <<filters, draft, currentPage, listing>>
    /\ UNCHANGED <<toasts, editingHotel, formData>>
    /\ UNCHANGED <<resolverVars, viewVars>>

\* the dashboard before its first listing arrived
FetchInit ==
    /\ rows = DashRows
    /\ cache = EmptyCache
    /\ now = 0
    /\ gets = [g \in GSlots |-> IdleGet]
    /\ writes = [w \in WSlots |-> IdleWrite]
    /\ lastResp = NoResp
    /\ nextId = Len(DashRows) + 1
    /\ ResolverIdle /\ ViewsIdle /\ ClientIdle

FetchNext ==
    \/ \E e \in DashEdits : Edit(e[1], e[2])
    \/ Apply
    \/ \E page \in 1..MaxPage : FetchStart(page)
    \/ \E c \in calls : FetchResolves(c)

SpecFetch == FetchInit /\ [][FetchNext]_vars

----------------------------------------------------------------------------
(* The edit form: openEditModal, the inputs of HotelFormModal, handleSubmit *)
(* and handleEditHotel.  A date input's value is '' or a date text; a date *)
(* text is held as a sequence of one day number, so that the comparison of *)
(* `new Date(a) <= new Date(b)` is the comparison of the day numbers.      *)

MaxSavesInFlight == 1

\* !!(start && end && new Date(start) <= new Date(end))
DatesInOrder(start, end) ==
    Len(start) > 0 /\ Len(end) > 0 /\ start[1] <= end[1]

\* the effect on [hotel, isOpen] for a hotel: only rateAvailability?.[0]
\* is taken into the form
LoadForm(hotel) ==
    LET list == hotel.rateAvailability
        first == list[1]
    IN  [name |-> hotel.name, country |-> hotel.country, city |-> hotel.city,
         stars |-> IF hotel.stars = None \/ hotel.stars = Some(0)
                   THEN DefaultStars ELSE hotel.stars[1],
         rateAvailability |->
            IF Len(list) > 0
            THEN <<[year |-> first.year,
                    available |-> first.available,
                    contractStart |-> IF Len(first.contractStart) = 0 THEN <<>>
                                      ELSE first.contractStart,
                    contractEnd |-> IF Len(first.contractEnd) = 0 THEN <<>>
                                    ELSE first.contractEnd]>>
            ELSE <<EmptyRate>>]

\* openEditModal(hotel), the render and the form's effect
openEditModal(hotel) ==
    /\ \E i \in 1..Len(listing) : listing[i] = hotel
    /\ editingHotel' = Some(hotel)
    /\ formData' = LoadForm(hotel)
    /\ lastEvent' = "open"
    /\ UNCHANGED <<filters, draft, currentPage, hotels, listing>>
    /\ UNCHANGED <<toasts, calls, pagination>>
    /\ UNCHANGED <<serverVars, resolverVars, viewVars>>

\* handleRateAvailabilityChange(field, value) on the form's one record
handleRateAvailabilityChange(data, field, value) ==
    LET curr == [data.rateAvailability[1] EXCEPT ![field] = value]
        start == IF field = "contractStart" THEN value ELSE curr.contractStart
        end == IF field = "contractEnd" THEN value ELSE curr.contractEnd
    IN  [data EXCEPT !.rateAvailability =
            <<IF field \in {"contractStart", "contractEnd"}
              THEN [curr EXCEPT !.available = DatesInOrder(start, end)]
              ELSE curr>>]

\* handleYearChange(value)
handleYearChange(data, value) ==
    [data EXCEPT !.rateAvailability = <<[data.rateAvailability[1] EXCEPT !.year = value]>>]

\* an input of the open form changes
FormEdit(field, value) ==
    /\ editingHotel # None
    /\ formData' = IF field = "name" THEN [formData EXCEPT !.name = value]
                   ELSE IF field = "year" THEN handleYearChange(formData, value)
                   ELSE handleRateAvailabilityChange(formData, field, value)
    /\ lastEvent' = "form"
    /\ UNCHANGED <<filters, draft, currentPage, hotels, listing>>
    /\ UNCHANGED <<toasts, calls, editingHotel, pagination>>
    /\ UNCHANGED <<serverVars, resolverVars, viewVars>>

\* what handleSubmit hands to onSubmit
Submitted(data) ==
    LET r == data.rateAvailability[1]
    IN  [data EXCEPT !.rateAvailability =
            <<[r EXCEPT !.available = DatesInOrder(r.contractStart, r.contractEnd)]>>]

\* handleSubmit of the edit form: onSubmit is handleEditHotel, which runs to
\* its await; onClose clears editingHotel and the effect resets the form
SubmitEdit ==
    /\ editingHotel # None
    /\ Len(formData.name) > 0
    /\ Cardinality(calls) < MaxCalls
    /\ Cardinality(CallsOf("PUT")) < MaxSavesInFlight
    /\ calls' = calls \cup {[kind |-> "PUT", id |-> editingHotel[1].id,
                             body |-> BodyOfForm(Submitted(formData))]}
    /\ editingHotel' = None
    /\ formData' = EmptyForm
    /\ lastEvent' = "save"
    /\ UNCHANGED <<filters, draft, currentPage, hotels, listing>>
    /\ UNCHANGED <<toasts, pagination>>
    /\ UNCHANGED <<serverVars, resolverVars, viewVars>>

\* handleEditHotel after its await
EditResolves(c, token, reaches) ==
    /\ c \in calls /\ c.kind = "PUT"
    /\ Served(c, token, reaches)
    /\ LET ok == Succeeds(c, token, reaches)
           req == RequestOf(c, token)
           updated == HotelFromApi(toApi(ReturnedRow(rows, req)[1]))
       IN  /\ hotels' = IF ok
                        THEN [i \in 1..Len(hotels) |->
                                IF hotels[i].id = c.id THEN updated ELSE hotels[i]]
                        ELSE hotels
           /\ toasts' = IF ok THEN <<"Hotel Updated">> ELSE <<"Update failed">>
    /\ calls' = calls \ {c}
    /\ editingHotel' = None
    /\ formData' = IF editingHotel # None THEN EmptyForm ELSE formData
    /\ lastEvent' = IF Succeeds(c, token, reaches) THEN "saved" ELSE "save failed"
    /\ UNCHANGED <<filters, draft, currentPage, pagination>>
    /\ listing' = Rendered
    /\ UNCHANGED <<resolverVars, viewVars>>

\* a date input's values
DateTexts == {<<>>, <<1>>}

FormEdits ==
    {<<"name", <<"x">>>>}
    \cup {<<"year", y>> : y \in {CurrentYear, CurrentYear + 1}}
    \cup {<<f, d>> : f \in {"contractStart", "contractEnd"}, d \in DateTexts}

\* a store of one hotel with records of two years, loaded into the dashboard
FormRows == <<RowOfHotel(ClientHotel(2))>>

FormInit ==
    /\ rows = FormRows
    /\ cache = EmptyCache
    /\ now = 0
    /\ gets = [g \in GSlots |-> IdleGet]
    /\ writes = [w \in WSlots |-> IdleWrite]
    /\ lastResp = NoResp
    /\ nextId = ClientHotel(2).id + 1
    /\ ResolverIdle /\ ViewsIdle
    /\ hotels = [i \in 1..Len(rows) |-> HotelFromApi(toApi(rows[i]))]
    /\ filters = DefaultFilters
    /\ draft = SyncDraft(DefaultFilters)
    /\ currentPage = 1
    /\ listing = paginatedHotels(filteredHotels(hotels, filters), currentPage)
    /\ lastEvent = "none"
    /\ DashIdle

FormNext ==
    \/ \E i \in 1..Len(hotels) : openEditModal(hotels[i])
    \/ \E e \in FormEdits : FormEdit(e[1], e[2])
    \/ SubmitEdit
    \/ \E c \in calls, token \in Tokens, reaches \in BOOLEAN :
            EditResolves(c, token, reaches)

SpecForm == FormInit /\ [][FormNext]_vars

----------------------------------------------------------------------------
(* Claims C21 .. C30 *)

\* write request w is answered in this step after its statement touched a row
WriteSucceeds(w) ==
    writes[w].pc = "fin" /\ writes[w].rowCount > 0 /\ writes'[w].pc = "idle"

\* C21: a create, update or delete that was carried out leaves no entry in
\* the cache, under any key.
C21_WriteEmptiesCache ==
    [][ \A w \in WSlots : WriteSucceeds(w) => DOMAIN cache' = {} ]_vars

\* a write has just been answered with success; the cache is empty, and the
\* GET in flight saw an entry under its key when the write cleared the cache
C21_Witness ==
    /\ IsWriteResp(lastResp) /\ lastResp.status \in {200, 201}
    /\ \A w \in WSlots : writes[w].pc = "idle"
    /\ cache = EmptyCache
    /\ \E g \in GSlots : gets[g].pc # "idle" /\ gets[g].pre

\* the stored row with this id
RowOf(table, id) == table[CHOOSE i \in 1..Len(table) : table[i].id = id]

\* the statement of a PUT for an existing hotel is executed in this step
PutExecutes(w) ==
    /\ writes[w].pc = "db" /\ writes'[w].pc = "fin"
    /\ writes[w].kind = "PUT" /\ HasId(rows, writes[w].id)

\* C22: a PUT is a partial update: each of name, country, city, stars and
\* rateAvailability that the body carries is replaced, each one it does not
\* carry keeps its stored value.
C22_PutIsPartial ==
    [][ \A w \in WSlots : PutExecutes(w) =>
          LET b == writes[w].body
              old == RowOf(rows, writes[w].id)
              new == RowOf(rows', writes[w].id)
          IN  /\ new.name = (IF b.name = Undefined THEN old.name ELSE b.name)
              /\ new.country = (IF b.country = Undefined THEN old.country ELSE b.country)
              /\ new.city = (IF b.city = Undefined THEN old.city ELSE b.city)
              /\ new.stars = (IF b.stars = None THEN old.stars ELSE b.stars)
              /\ new.rate_availability =
                    (IF b.rateAvailability = JUndefined
                     THEN old.rate_availability ELSE b.rateAvailability)
      ]_vars

\* C23: every stored hotel's rateAvailability is a list, whatever bodies the
\* accepted POST and PUT requests carried.
C23_RateAvailabilityIsList ==
    \A i \in 1..Len(rows) : IsArray(rows[i].rate_availability)

ValidAdmin(token) == token # NoToken /\ token.valid /\ token.role = "admin"

\* C25: a write that is rejected (401 or 403 by the token, 400 by a POST
\* body, 404 by an id no row has) leaves the stored rows and the cache as
\* they were: such a request either never reaches the store or its
\* statement touches no row, and its answer does not clear the cache.
C25_RejectedWriteChangesNothing ==
    [][ /\ \A w \in WSlots :
            /\ writes'[w].pc # "idle" =>
                  /\ ValidAdmin(writes'[w].token)
                  /\ writes'[w].kind = "POST" => ~PostRejected(writes'[w].body)
            /\ ( /\ writes[w].pc = "db" /\ writes'[w].pc = "fin"
                 /\ writes[w].kind # "POST" /\ ~HasId(rows, writes[w].id) )
               => rows' = rows /\ cache' = cache /\ writes'[w].rowCount = 0
            /\ ( writes[w].pc = "fin" /\ writes[w].rowCount = 0
                 /\ writes'[w].pc = "idle" )
               => rows' = rows /\ cache' = cache /\ lastResp'.status = 404
        /\ ( /\ writes' = writes /\ lastResp' # lastResp
             /\ IsWriteResp(lastResp')
             /\ lastResp'.status \in {400, 401, 403} )
           => rows' = rows /\ cache' = cache
      ]_vars

\* a request was just answered 404 while the store holds a hotel and the
\* cache an entry
C25_Witness ==
    /\ IsWriteResp(lastResp) /\ lastResp.status = 404
    /\ NoWriteInFlight
    /\ rows # <<>>
    /\ cache # EmptyCache

\* a listing result whose total is the number of rows it carries; for the
\* requests of Spec (first page, default limit, fewer stored rows than one
\* page) the rows of a result are all the rows that matched when they were
\* read, so this is what a count taken in the same store state gives
SelfConsistent(result) ==
    /\ result.pagination.total = Num(Len(result.hotels))
    /\ result.pagination.totalPages =
          MathCeilDiv(Len(result.hotels), result.pagination.limit.v)

\* C26: in every interleaving with writes, the total and totalPages of a
\* GET response count the hotels of the store state its rows were read
\* from, and so does every cached result.
C26_TotalMatchesRows ==
    /\ (lastResp.type = "GET" /\ lastResp.status = 200)
          => SelfConsistent(lastResp.body)
    /\ \A k \in DOMAIN cache : SelfConsistent(cache[k].data)

\* C27: whenever the committed filter set differs from the default one in
\* search, country, city, year or contractStatus, the Clear button is
\* enabled (it is disabled exactly when hasActiveFilters is false).
C27_ClearEnabledWhenNotDefault ==
    (\E key \in FilterKeys : filters[key] # SpecDefaults[key]) => hasActiveFilters

\* C29: currentPage lies between 1 and max(1, totalPages) in every state of
\* the dashboard, whatever page changes, filter commits, additions and
\* deletions led to it.
C29_PageWithinRange ==
    LET tp == totalPages(filteredHotels(hotels, filters))
    IN  currentPage >= 1 /\ currentPage <= (IF tp > 1 THEN tp ELSE 1)

\* C30: the handler of a delete emits 'Hotel Deleted' only when the DELETE
\* succeeded and the hotel left the local list; when it failed, the handler
\* emits the failure notification alone and the list is as it was.
C30_DeletedToastOnlyOnSuccess ==
    [][ \A c \in calls :
          (c.kind = "DELETE" /\ c \notin calls') =>
             IF \E i \in 1..Len(hotels) : hotels[i].id = c.id
                /\ \A j \in 1..Len(hotels') : hotels'[j].id # c.id
             THEN toasts' = <<"Hotel Deleted">>
             ELSE hotels' = hotels /\ toasts' = <<"Delete failed">>
      ]_vars

\* the hotels of the response sent last, as the client parses them
AnsweredHotels(resp) ==
    [i \in 1..Len(resp.body.hotels) |-> HotelFromApi(resp.body.hotels[i])]

\* C24: no listing fetch in flight is cancelled, and whenever the response
\* to one of them arrives, the hotel list, the total and the page count
\* become those of that response, also when the request is older than the
\* one whose response is on display.
C24_LastResolvedWins ==
    [][ /\ \A c \in calls :
            (c.kind = "GET" /\ c \notin calls') =>
               /\ calls' = calls \ {c}
               /\ lastResp'.type = "GET" /\ lastResp'.q = c.q
               /\ hotels' = AnsweredHotels(lastResp')
               /\ pagination'.total = lastResp'.body.pagination.total.v
               /\ pagination'.totalPages = lastResp'.body.pagination.totalPages.v
        /\ (\A c \in calls : c \in calls') => calls \subseteq calls'
      ]_vars

\* the response to an older request has just replaced the data of a newer
\* one: what is shown is page 2 of the list although the request made last
\* asked for another page
C24_Witness ==
    /\ lastEvent = "older response"
    /\ calls = {}
    /\ pagination.seq = 1
    /\ lastResp.q.page = NatToChars(2)
    /\ hotels = AnsweredHotels(lastResp)
    /\ Len(hotels) = 1

\* the year records of a stored list other than the one the form shows
OtherRecords(j) == {j.v[i] : i \in 2..Len(j.v)}

\* C28: saving a hotel from the edit form keeps every year record the
\* stored hotel had, other than the one shown in the form.
C28_SaveKeepsOtherYears ==
    [][ \A c \in calls :
          (c.kind = "PUT" /\ c \notin calls' /\ lastEvent' = "saved") =>
             \A i \in 1..Len(rows) :
                rows[i].id = c.id =>
                   \A j \in 1..Len(rows') :
                      rows'[j].id = c.id =>
                         OtherRecords(rows[i].rate_availability)
                            \subseteq {rows'[j].rate_availability.v[k] :
                                         k \in 1..Len(rows'[j].rate_availability.v)}
      ]_vars

====
